---- MODULE Spec2Model ----
(***************************************************************************)
(* State-machine model of src/createPullRequest.ts: the branch resolution, *)
(* the sync-with-main sequence, the PR-message generation and the two      *)
(* hosting-API calls.  Texts are sequences of tokens: a token is a single  *)
(* character (" ", "\n", "a") or an atomic word (a branch name, a fixed    *)
(* message fragment).  Every execSync is one step whose outcome (exit code *)
(* zero or not) is chosen by the environment.                              *)
(***************************************************************************)
EXTENDS Integers, Sequences, FiniteSets, TLC

VARIABLES env, gitBranch, entry, pc, log, err, currentBranch, syncBranch,
          response, prMessage, token, request, httpResp, result, reported

vars == <<env, gitBranch, entry, pc, log, err, currentBranch, syncBranch,
          response, prMessage, token, request, httpResp, result, reported>>

\* ------------------------------------------------------------------ bounds
MaxLen == 7          \* longest LLM response text given to the message parser
MaxRespLen == 3      \* longest LLM response text inside the full workflow
MaxErrLen == 2       \* longest hosting-API error body

\* ------------------------------------------------------------------- texts
NL == "\n"
Alphabet == {"a", " ", NL}
ErrAlphabet == {"e", " "}

RECURSIVE TextsOver(_, _)
TextsOver(A, n) ==
  IF n = 0 THEN {<<>>}
  ELSE LET shorter == TextsOver(A, n - 1)
       IN  shorter \cup {Append(t, c) : t \in {s \in shorter : Len(s) = n - 1}, c \in A}

IsWhite(c) == c \in {" ", NL}

RECURSIVE TrimStart(_)
TrimStart(s) ==
  IF s = <<>> THEN <<>>
  ELSE IF IsWhite(Head(s)) THEN TrimStart(Tail(s)) ELSE s

RECURSIVE TrimEnd(_)
TrimEnd(s) ==
  IF s = <<>> THEN <<>>
  ELSE IF IsWhite(s[Len(s)]) THEN TrimEnd(SubSeq(s, 1, Len(s) - 1)) ELSE s

\* String.prototype.trim
Trim(s) == TrimEnd(TrimStart(s))

\* does separator sep occur in s at (1-based) position q
MatchAt(s, sep, q) ==
  /\ q + Len(sep) - 1 <= Len(s)
  /\ SubSeq(s, q, q + Len(sep) - 1) = sep

\* String.prototype.split with a non-empty string separator: scan from the
\* left, cut at every non-overlapping occurrence, keep the pieces in order.
RECURSIVE SplitFrom(_, _, _, _)
SplitFrom(s, sep, p, q) ==
  IF q > Len(s) THEN <<SubSeq(s, p, Len(s))>>
  ELSE IF MatchAt(s, sep, q)
       THEN <<SubSeq(s, p, q - 1)>> \o SplitFrom(s, sep, q + Len(sep), q + Len(sep))
       ELSE SplitFrom(s, sep, p, q + 1)

Split(s, sep) == SplitFrom(s, sep, 1, 1)

\* Array.prototype.join
RECURSIVE Join(_, _)
Join(parts, sep) ==
  IF parts = <<>> THEN <<>>
  ELSE IF Len(parts) = 1 THEN parts[1]
  ELSE parts[1] \o sep \o Join(Tail(parts), sep)

\* `needle` occurs in `hay` as a contiguous piece
Contains(hay, needle) ==
  \E i \in 1..(Len(hay) + 1) : MatchAt(hay, needle, i)

\* ------------------------------------------------------------- environment
\* a process.env entry: undefined, or a string (possibly empty)
Undefined == [def |-> FALSE, val |-> <<>>]
Str(s) == [def |-> TRUE, val |-> s]
\* JavaScript truthiness of a process.env entry
Truthy(v) == v.def /\ v.val # <<>>

BranchWords == {"raffi", "feature-x", "main"}
MarkerVals == {Undefined, Str(<<>>), Str(<<"1">>)}
RefVals == {Undefined, Str(<<>>), Str(<<"raffi">>), Str(<<"feature-x">>), Str(<<"raffi", " ">>)}
KeyVals == {Undefined, Str(<<"sk-key">>)}
Envs == [VERCEL : MarkerVals, VERCEL_GIT_COMMIT_REF : RefVals,
         ANTHROPIC_API_KEY : KeyVals,
         PAT_TOKEN : {Str(<<"pat">>)}, RAFFI_PAT_TOKEN : {Str(<<"raffi-pat">>)}]

\* ------------------------------------------------------------------ errors
NoErr == <<>>
ExecError(cmd) == <<"Command failed: ", cmd>>
VercelBranchError == <<"Unable to determine branch name in Vercel environment">>
BranchError == <<"Unable to determine branch name">>
SyncError(cause) == <<"Please ensure your changes are committed and try again: ">> \o cause
ConflictError == <<"Please manually rebase your branch on main and resolve conflicts before creating PR">>
ApiKeyError == <<"ANTHROPIC_API_KEY environment variable is not set">>

\* ---------------------------------------------------------------- commands
RevParse == "git rev-parse --abbrev-ref HEAD"
PushOrigin == "git push origin"
FetchOrigin == "git fetch origin"
RebaseMain == "git rebase origin/main"
PushLease == "git push --force-with-lease"
RebaseAbort == "git rebase --abort"
GitStatus == "git status --porcelain"
GitAdd == "git add ."
GitCommit == "git commit -m sync"
GitDiff == "git diff origin/main"
LLMCreate == "anthropic messages.create"
PostPulls == "POST /repos/modern-realty-inc/plug-chat/pulls"
PostIssues == "POST /repos/owner/repo/issues"

\* one execSync call: the command, its argument text, whether it exited 0
Exec(cmd, arg, ok) == [cmd |-> cmd, arg |-> arg, ok |-> ok]

\* --------------------------------------------------------- getCurrentBranch
\* variant: a missing deployment variable falls back to the git query
GetCurrentBranch_Fallback(gitOk) ==
  IF Truthy(env.VERCEL) /\ Truthy(env.VERCEL_GIT_COMMIT_REF)
  THEN [ok |-> TRUE, val |-> env.VERCEL_GIT_COMMIT_REF.val, err |-> NoErr, cmds |-> <<>>]
  ELSE IF gitOk
       THEN [ok |-> TRUE, val |-> Trim(<<gitBranch, NL>>), err |-> NoErr,
             cmds |-> <<Exec(RevParse, <<>>, TRUE)>>]
       ELSE [ok |-> FALSE, val |-> <<>>, err |-> BranchError,
             cmds |-> <<Exec(RevParse, <<>>, FALSE)>>]

\* result of one call: the branch (or the error thrown) and the commands run
GetCurrentBranch(gitOk) ==
  IF Truthy(env.VERCEL)
  THEN IF ~Truthy(env.VERCEL_GIT_COMMIT_REF)
       THEN [ok |-> FALSE, val |-> <<>>, err |-> VercelBranchError, cmds |-> <<>>]
       ELSE [ok |-> TRUE, val |-> env.VERCEL_GIT_COMMIT_REF.val, err |-> NoErr, cmds |-> <<>>]
  ELSE IF gitOk
       THEN [ok |-> TRUE, val |-> Trim(<<gitBranch, NL>>), err |-> NoErr,
             cmds |-> <<Exec(RevParse, <<>>, TRUE)>>]
       ELSE [ok |-> FALSE, val |-> <<>>, err |-> BranchError,
             cmds |-> <<Exec(RevParse, <<>>, FALSE)>>]

\* ------------------------------------------------------------ control flow
NoResponse == [type |-> "none", text |-> <<>>]
NoMessage == [title |-> <<>>, body |-> <<>>]
NoRequest == [url |-> "none", token |-> <<>>, title |-> <<>>, body |-> <<>>,
              head |-> <<>>, base |-> <<>>]
NoHttp == [status |-> "none", ok |-> FALSE, text |-> <<>>, number |-> 0]

Entries == {"createPRToMain", "syncWithMain", "createGitHubIssue"}

\* first step of each exported function
EntryPc(e) ==
  CASE e = "createPRToMain" -> "pr_status"
    [] e = "syncWithMain" -> "sync"
    [] e = "createGitHubIssue" -> "issue"
    [] OTHER -> "gen_key"

Init ==
  /\ env \in Envs
  /\ gitBranch \in BranchWords
  /\ entry \in Entries
  /\ pc = EntryPc(entry)
  /\ log = <<>>
  /\ err = NoErr
  /\ currentBranch = <<>>
  /\ syncBranch = <<>>
  /\ response = NoResponse
  /\ prMessage = NoMessage
  /\ token = Undefined
  /\ request = NoRequest
  /\ httpResp = NoHttp
  /\ result = 0
  /\ reported = FALSE

\* an error leaves the running function; createPRToMain's catch logs and
\* rethrows it unchanged, the --sync entry logs it and exits 1
Throw(e) ==
  /\ err' = e
  /\ pc' = "failed"

\* -------------------------------------------------------------- syncWithMain
\* line 145: const currentBranch = getCurrentBranch()
SyncResolve ==
  /\ pc = "sync"
  /\ \E gitOk \in BOOLEAN :
       LET r == GetCurrentBranch(gitOk) IN
       /\ log' = log \o r.cmds
       /\ IF r.ok
          THEN /\ syncBranch' = r.val
               /\ pc' = "sync_push"
               /\ err' = err
          ELSE /\ Throw(r.err)
               /\ syncBranch' = syncBranch
  /\ UNCHANGED <<env, gitBranch, entry, currentBranch, response, prMessage,
                 token, request, httpResp, result, reported>>

\* variant: a failed initial push is logged and the sync goes on
SyncPush_Continue ==
  /\ pc = "sync_push"
  /\ \E ok \in BOOLEAN :
       /\ log' = Append(log, Exec(PushOrigin, syncBranch, ok))
       /\ pc' = "sync_fetch"
       /\ err' = err
  /\ UNCHANGED <<env, gitBranch, entry, currentBranch, syncBranch, response,
                 prMessage, token, request, httpResp, result, reported>>

\* lines 149-154: git push origin <branch>, failure becomes the sync error
SyncPush ==
  /\ pc = "sync_push"
  /\ \E ok \in BOOLEAN :
       /\ log' = Append(log, Exec(PushOrigin, syncBranch, ok))
       /\ IF ok
          THEN pc' = "sync_fetch" /\ err' = err
          ELSE Throw(SyncError(ExecError(PushOrigin)))
  /\ UNCHANGED <<env, gitBranch, entry, currentBranch, syncBranch, response,
                 prMessage, token, request, httpResp, result, reported>>

\* line 158: git fetch origin, outside any try block
SyncFetch ==
  /\ pc = "sync_fetch"
  /\ \E ok \in BOOLEAN :
       /\ log' = Append(log, Exec(FetchOrigin, <<>>, ok))
       /\ IF ok
          THEN pc' = "sync_rebase" /\ err' = err
          ELSE Throw(ExecError(FetchOrigin))
  /\ UNCHANGED <<env, gitBranch, entry, currentBranch, syncBranch, response,
                 prMessage, token, request, httpResp, result, reported>>

\* line 163: git rebase origin/main, first statement of the try block
SyncRebase ==
  /\ pc = "sync_rebase"
  /\ \E ok \in BOOLEAN :
       /\ log' = Append(log, Exec(RebaseMain, <<>>, ok))
       /\ pc' = IF ok THEN "sync_lease" ELSE "sync_abort"
  /\ UNCHANGED <<env, gitBranch, entry, err, currentBranch, syncBranch, response,
                 prMessage, token, request, httpResp, result, reported>>

\* where control goes when syncWithMain returns normally
AfterSync == IF entry = "createPRToMain" THEN "gen_key" ELSE "done"

\* line 167: git push --force-with-lease, second statement of the same try
SyncForcePush ==
  /\ pc = "sync_lease"
  /\ \E ok \in BOOLEAN :
       /\ log' = Append(log, Exec(PushLease, <<>>, ok))
       /\ pc' = IF ok THEN AfterSync ELSE "sync_abort"
  /\ UNCHANGED <<env, gitBranch, entry, err, currentBranch, syncBranch, response,
                 prMessage, token, request, httpResp, result, reported>>

\* lines 168-172: the catch block; the abort itself is an unguarded execSync
SyncAbort ==
  /\ pc = "sync_abort"
  /\ \E ok \in BOOLEAN :
       /\ log' = Append(log, Exec(RebaseAbort, <<>>, ok))
       /\ IF ok
          THEN Throw(ConflictError)
          ELSE Throw(ExecError(RebaseAbort))
  /\ UNCHANGED <<env, gitBranch, entry, currentBranch, syncBranch, response,
                 prMessage, token, request, httpResp, result, reported>>

\* ------------------------------------------------------------ createPRToMain
\* line 183: git status --porcelain; a non-empty output means pending changes
PRStatus ==
  /\ pc = "pr_status"
  /\ \E ok \in BOOLEAN, dirty \in BOOLEAN :
       /\ log' = Append(log, Exec(GitStatus, IF ok /\ dirty THEN <<"M">> ELSE <<>>, ok))
       /\ IF ok
          THEN pc' = (IF dirty THEN "pr_add" ELSE "pr_resolve") /\ err' = err
          ELSE Throw(ExecError(GitStatus))
  /\ UNCHANGED <<env, gitBranch, entry, currentBranch, syncBranch, response,
                 prMessage, token, request, httpResp, result, reported>>

\* variant: a failing command is caught and the workflow continues
PlainExec_Continue(at, cmd, next) ==
  /\ pc = at
  /\ \E ok \in BOOLEAN :
       /\ log' = Append(log, Exec(cmd, <<>>, ok))
       /\ pc' = next
       /\ err' = err
  /\ UNCHANGED <<env, gitBranch, entry, currentBranch, syncBranch, response,
                 prMessage, token, request, httpResp, result, reported>>

\* one plain execSync inside createPRToMain's try block
PlainExec(at, cmd, next) ==
  /\ pc = at
  /\ \E ok \in BOOLEAN :
       /\ log' = Append(log, Exec(cmd, <<>>, ok))
       /\ IF ok
          THEN pc' = next /\ err' = err
          ELSE Throw(ExecError(cmd))
  /\ UNCHANGED <<env, gitBranch, entry, currentBranch, syncBranch, response,
                 prMessage, token, request, httpResp, result, reported>>

\* lines 186-188: the auto-commit of pending changes
PRAdd == PlainExec("pr_add", GitAdd, "pr_commit")
PRCommit == PlainExec("pr_commit", GitCommit, "pr_autopush")
PRAutoPush == PlainExec("pr_autopush", PushLease, "pr_resolve")

\* line 191: const currentBranch = getCurrentBranch()
PRResolve ==
  /\ pc = "pr_resolve"
  /\ \E gitOk \in BOOLEAN :
       LET r == GetCurrentBranch(gitOk) IN
       /\ log' = log \o r.cmds
       /\ IF r.ok
          THEN /\ currentBranch' = r.val
               /\ pc' = "sync"
               /\ err' = err
          ELSE /\ Throw(r.err)
               /\ currentBranch' = currentBranch
  /\ UNCHANGED <<env, gitBranch, entry, syncBranch, response, prMessage,
                 token, request, httpResp, result, reported>>

\* --------------------------------------------------------- generatePRMessage
\* lines 54-57: the API key check, before any command or network call
GenKey ==
  /\ pc = "gen_key"
  /\ IF Truthy(env.ANTHROPIC_API_KEY)
     THEN pc' = "gen_diff" /\ err' = err
     ELSE Throw(ApiKeyError)
  /\ UNCHANGED <<env, gitBranch, entry, log, currentBranch, syncBranch, response,
                 prMessage, token, request, httpResp, result, reported>>

\* line 65: git diff origin/main
GenDiff == PlainExec("gen_diff", GitDiff, "gen_llm")

\* the content array of an LLM reply: empty, or its first block
Responses(texts) ==
  {[type |-> "empty", text |-> <<>>], [type |-> "tool_use", text |-> <<>>]}
    \cup {[type |-> "text", text |-> t] : t \in texts}

\* lines 69-81: the completion request; a transport/API error is not caught
GenLLM(texts) ==
  /\ pc = "gen_llm"
  /\ \/ /\ log' = Append(log, Exec(LLMCreate, <<>>, FALSE))
        /\ Throw(<<"LLM request failed">>)
        /\ response' = response
     \/ \E r \in Responses(texts) :
          /\ log' = Append(log, Exec(LLMCreate, <<>>, TRUE))
          /\ response' = r
          /\ pc' = "gen_parse"
          /\ err' = err
  /\ UNCHANGED <<env, gitBranch, entry, currentBranch, syncBranch,
                 prMessage, token, request, httpResp, result, reported>>

\* variant: only the first paragraph after the title is kept as the body
GeneratePRMessage_FirstParagraph(resp) ==
  LET responseText == IF resp.type = "text" THEN resp.text ELSE <<>>
      parts == Split(responseText, <<NL, NL>>)
      title == parts[1]
      bodyParts == Tail(parts)
  IN  [title |-> Trim(title),
       body |-> IF bodyParts = <<>> THEN <<>> ELSE Trim(bodyParts[1])]

\* lines 84-93: title and body from the first content block
GeneratePRMessage(resp) ==
  LET responseText == IF resp.type = "text" THEN resp.text ELSE <<>>
      parts == Split(responseText, <<NL, NL>>)
      title == parts[1]
      bodyParts == Tail(parts)
  IN  [title |-> Trim(title), body |-> Trim(Join(bodyParts, <<NL, NL>>))]

\* where control goes when generatePRMessage returns
AfterParse == IF entry = "createPRToMain" THEN "pr_create" ELSE "done"

\* lines 84-93 as a step; message.content[0] of an empty array is undefined
\* and reading its .type throws a TypeError
ParseResponse ==
  /\ pc = "gen_parse"
  /\ IF response.type = "empty"
     THEN /\ Throw(<<"TypeError: Cannot read properties of undefined">>)
          /\ prMessage' = prMessage
     ELSE /\ prMessage' = GeneratePRMessage(response)
          /\ pc' = AfterParse
          /\ err' = err
  /\ UNCHANGED <<env, gitBranch, entry, log, currentBranch, syncBranch, response,
                 token, request, httpResp, result, reported>>

\* ------------------------------------------------------------ hosting client
\* variant: the branch name is trimmed before the comparison
SelectToken_Trimmed(branch) ==
  IF Trim(branch) = <<"raffi">> THEN env.RAFFI_PAT_TOKEN ELSE env.PAT_TOKEN

\* lines 102 and 223: the token is chosen by the branch name
SelectToken(branch) ==
  IF branch = <<"raffi">> THEN env.RAFFI_PAT_TOKEN ELSE env.PAT_TOKEN

\* lines 105-118: the create-PR request
PRRequest(options, message, tok) ==
  [url |-> PostPulls, token |-> tok.val, title |-> message.title,
   body |-> message.body, head |-> options.head, base |-> options.base]

\* lines 226-238: the create-issue request (labels left out)
IssueRequest(options, tok) ==
  [url |-> PostIssues, token |-> tok.val, title |-> options.title,
   body |-> options.body, head |-> <<>>, base |-> <<>>]

\* variant: head and base exchanged
PROptions_Swapped(branch) == [head |-> <<"main">>, base |-> branch]

\* lines 203-208: the options createPRToMain passes to createPR
PROptions(branch) == [head |-> branch, base |-> <<"main">>]

IssueOptions == [title |-> <<"Bug Report">>, body |-> <<"Detailed issue description">>]

\* variant: the response body is dropped from the message
PRApiError_Generic(errorText) == <<"Failed to create PR: ">>

\* lines 123 and 243: the error raised for a non-success status
PRApiError(errorText) == <<"Failed to create PR: ">> \o errorText
IssueApiError(errorText) == <<"Failed to create issue: ">> \o errorText
\* the one raised by the operation that sent request `cmd`
ApiError(cmd, errorText) ==
  IF cmd = PostPulls THEN PRApiError(errorText) ELSE IssueApiError(errorText)

ErrTexts == TextsOver(ErrAlphabet, MaxErrLen)
\* what fetch can produce: a rejected promise, a non-success status with a
\* body, or a success status whose body is the created resource or not JSON
HttpOutcomes ==
  {[status |-> "rejected", ok |-> FALSE, text |-> <<>>, number |-> 0]}
    \cup {[status |-> "received", ok |-> FALSE, text |-> t, number |-> 0] : t \in ErrTexts}
    \cup {[status |-> "received", ok |-> TRUE, text |-> <<>>, number |-> n] : n \in {0, 7}}

\* lines 101-102 / 222-223: resolve the branch again and pick the token
Authorize(at, next) ==
  /\ pc = at
  /\ \E gitOk \in BOOLEAN :
       LET r == GetCurrentBranch(gitOk) IN
       /\ log' = log \o r.cmds
       /\ IF r.ok
          THEN /\ token' = SelectToken(r.val)
               /\ pc' = next
               /\ err' = err
          ELSE /\ Throw(r.err)
               /\ token' = token
  /\ UNCHANGED <<env, gitBranch, entry, currentBranch, syncBranch, response,
                 prMessage, request, httpResp, result, reported>>

\* lines 105-137 / 226-257: send the request and handle the response;
\* number 0 stands for a success body that response.json() cannot parse
Post(at, req, cmd, next) ==
  /\ pc = at
  /\ request' = req
  /\ \E h \in HttpOutcomes :
       /\ httpResp' = h
       /\ log' = Append(log, Exec(cmd, <<>>, h.ok))
       /\ IF h.status = "rejected"
          THEN Throw(<<"TypeError: fetch failed">>) /\ result' = result
          ELSE IF ~h.ok
          THEN Throw(ApiError(cmd, h.text)) /\ result' = result
          ELSE IF h.number = 0
          THEN Throw(<<"SyntaxError: Unexpected token">>) /\ result' = result
          ELSE result' = h.number /\ pc' = next /\ err' = err
  /\ UNCHANGED <<env, gitBranch, entry, currentBranch, syncBranch, response,
                 prMessage, token, reported>>

PRAuthorize == Authorize("pr_create", "pr_post")
PRPost == Post("pr_post", PRRequest(PROptions(currentBranch), prMessage, token),
               PostPulls, "pr_report")

\* line 210: createPRToMain reports success
PRReport ==
  /\ pc = "pr_report"
  /\ reported' = TRUE
  /\ pc' = "done"
  /\ UNCHANGED <<env, gitBranch, entry, log, err, currentBranch, syncBranch, response,
                 prMessage, token, request, httpResp, result>>

IssueAuthorize == Authorize("issue", "issue_post")
IssuePost == Post("issue_post", IssueRequest(IssueOptions, token),
                  PostIssues, "done")

\* ----------------------------------------------------------- specifications
Next ==
  \/ PRStatus \/ PRAdd \/ PRCommit \/ PRAutoPush \/ PRResolve
  \/ SyncResolve \/ SyncPush \/ SyncFetch \/ SyncRebase \/ SyncForcePush \/ SyncAbort
  \/ GenKey \/ GenDiff \/ GenLLM(TextsOver(Alphabet, MaxRespLen)) \/ ParseResponse
  \/ PRAuthorize \/ PRPost \/ PRReport
  \/ IssueAuthorize \/ IssuePost

Spec == Init /\ [][Next]_vars

\* generatePRMessage on its own, over longer response texts
InitMessage ==
  /\ env \in {e \in Envs : e.VERCEL = Undefined /\ e.VERCEL_GIT_COMMIT_REF = Undefined}
  /\ gitBranch = "main"
  /\ entry = "generatePRMessage"
  /\ pc = EntryPc(entry)
  /\ log = <<>>
  /\ err = NoErr
  /\ currentBranch = <<>>
  /\ syncBranch = <<>>
  /\ response = NoResponse
  /\ prMessage = NoMessage
  /\ token = Undefined
  /\ request = NoRequest
  /\ httpResp = NoHttp
  /\ result = 0
  /\ reported = FALSE

NextMessage ==
  \/ GenKey \/ GenDiff \/ GenLLM(TextsOver(Alphabet, MaxLen)) \/ ParseResponse

SpecMessage == InitMessage /\ [][NextMessage]_vars

\* ------------------------------------------------------- reading the log
LogCmds == [i \in 1..Len(log) |-> log[i].cmd]
Issued(cmd) == \E i \in 1..Len(log) : log[i].cmd = cmd
FailedAt(i, cmd) == log[i].cmd = cmd /\ ~log[i].ok
Failed(cmd) == \E i \in 1..Len(log) : FailedAt(i, cmd)
AllOk == \A i \in 1..Len(log) : log[i].ok
IsPrefix(s, t) == Len(s) <= Len(t) /\ SubSeq(t, 1, Len(s)) = s

\* the branch a resolution yields in this environment
ViaGit == ~Truthy(env.VERCEL)
Resolved == IF ViaGit THEN <<gitBranch>> ELSE env.VERCEL_GIT_COMMIT_REF.val

\* C1: whenever git rebase origin/main fails, git rebase --abort is issued
\* before an error reaches the caller, no git push --force-with-lease follows
\* it, and the error the caller receives is the manual-rebase error.
C1_RebaseFailureRaisesConflict ==
  \A i \in 1..Len(log) :
    FailedAt(i, RebaseMain) =>
      /\ \A j \in (i + 1)..Len(log) : log[j].cmd # PushLease
      /\ pc = "failed" =>
           /\ \E j \in (i + 1)..Len(log) : log[j].cmd = RebaseAbort
           /\ err = ConflictError

\* C2: when the initial git push origin <branch> fails, it is the last
\* command of the run, no fetch, rebase, abort or force-push of the sync is
\* issued, and the call fails with the sync error, not the conflict error.
C2_PushFailureStopsSync ==
  \A i \in 1..Len(log) :
    FailedAt(i, PushOrigin) =>
      /\ i = Len(log)
      /\ ~Issued(FetchOrigin) /\ ~Issued(RebaseMain) /\ ~Issued(RebaseAbort)
      /\ pc = "failed"
      /\ err = SyncError(ExecError(PushOrigin))
      /\ err # ConflictError

C2_Witness ==
  /\ entry = "syncWithMain"
  /\ Failed(PushOrigin)
  /\ pc = "failed"

\* the commands of a complete createPRToMain run, in order
ExpectedRun(dirty) ==
  LET resolve == IF ViaGit THEN <<RevParse>> ELSE <<>> IN
  <<GitStatus>> \o (IF dirty THEN <<GitAdd, GitCommit, PushLease>> ELSE <<>>)
    \o resolve \o resolve
    \o <<PushOrigin, FetchOrigin, RebaseMain, PushLease, GitDiff, LLMCreate>>
    \o resolve \o <<PostPulls>>

AbortedLast == Len(log) > 0 /\ log[Len(log)].cmd = RebaseAbort
\* the log without a trailing rebase abort
Core == IF AbortedLast THEN SubSeq(LogCmds, 1, Len(log) - 1) ELSE LogCmds

\* C3: createPRToMain issues its steps in the fixed order, each only after
\* every earlier one succeeded; after a failing step only the rebase abort
\* may follow; an error reaches the caller and no success is reported; success
\* is reported only after a successful create-PR POST; the POST is sent only
\* after a complete sync, a diff taken after it and a generated message.
C3_FixedOrderFirstFailureStops ==
  entry = "createPRToMain" =>
    LET dirty == Len(log) > 0 /\ log[1].arg # <<>> IN
    /\ IsPrefix(Core, ExpectedRun(dirty))
    /\ \A i \in 1..(Len(Core) - 1) : log[i].ok
    /\ AbortedLast => ~log[Len(Core)].ok
    /\ ~AllOk => pc \in {"failed", "sync_abort"}
    /\ err # NoErr <=> pc = "failed"
    /\ pc = "failed" => ~reported
    /\ reported => Core = ExpectedRun(dirty) /\ AllOk /\ httpResp.ok /\ pc = "done"
    /\ request.url = PostPulls =>
         /\ Core = ExpectedRun(dirty)
         /\ \A i \in 1..(Len(log) - 1) : log[i].ok
         /\ response.type # "none"
         /\ request.title = GeneratePRMessage(response).title
         /\ request.body = GeneratePRMessage(response).body

C3_Witness ==
  /\ entry = "createPRToMain"
  /\ Len(log) > 0
  /\ log[1].arg # <<>>
  /\ Failed(RebaseMain)
  /\ AbortedLast
  /\ pc = "failed"

\* C4: every create-PR request of createPRToMain has head equal to the
\* branch resolved in the run and base equal to "main", on both resolution
\* paths.
C4_HeadIsBranchBaseIsMain ==
  request.url = PostPulls =>
    /\ request.head = currentBranch
    /\ currentBranch = Resolved
    /\ request.base = <<"main">>

C4_Witness ==
  /\ request.url = PostPulls
  /\ ViaGit
  /\ request.head = <<"feature-x">>

\* the text before / after the first double newline
HasBlank(t) == \E i \in 1..Len(t) : MatchAt(t, <<NL, NL>>, i)
FirstBlank(t) ==
  CHOOSE i \in 1..Len(t) :
    MatchAt(t, <<NL, NL>>, i) /\ \A j \in 1..(i - 1) : ~MatchAt(t, <<NL, NL>>, j)
BeforeFirstBlank(t) == IF HasBlank(t) THEN SubSeq(t, 1, FirstBlank(t) - 1) ELSE t
AfterFirstBlank(t) == IF HasBlank(t) THEN SubSeq(t, FirstBlank(t) + 2, Len(t)) ELSE <<>>

Parsed == response.type \in {"text", "tool_use"} /\ pc # "gen_parse"

\* C5: for a text response, the title is the text before the first double
\* newline, trimmed, and the body is all the text after it, trimmed; without
\* a double newline the title is the whole trimmed text and the body is empty.
C5_TitleBodySplit ==
  Parsed /\ response.type = "text" =>
    /\ prMessage.title = Trim(BeforeFirstBlank(response.text))
    /\ prMessage.body = Trim(AfterFirstBlank(response.text))
    /\ ~HasBlank(response.text) =>
         prMessage.title = Trim(response.text) /\ prMessage.body = <<>>

C5_Witness ==
  /\ Parsed
  /\ response.text = <<"a", NL, NL, "a", NL, NL, "a">>
  /\ prMessage.body = <<"a", NL, NL, "a">>

\* C6: createPR and createGitHubIssue use the alternate token exactly when
\* the resolved branch is "raffi", and the default token for any other name.
C6_TokenByBranch ==
  /\ token.def =>
       /\ entry \in {"createPRToMain", "createGitHubIssue"}
       /\ token = IF Resolved = <<"raffi">> THEN env.RAFFI_PAT_TOKEN ELSE env.PAT_TOKEN
       /\ token = env.RAFFI_PAT_TOKEN <=> Resolved = <<"raffi">>
  /\ request.url # "none" => token.def /\ request.token = token.val

C6_Witness ==
  /\ entry = "createGitHubIssue"
  /\ request.url = PostIssues
  /\ request.token = env.RAFFI_PAT_TOKEN.val

\* positions before the first branch resolution of each entry
BeforeResolve == {"pr_status", "pr_add", "pr_commit", "pr_autopush", "pr_resolve",
                  "sync", "issue"}

\* C7: with the VERCEL marker set (to a non-empty value) the branch is the
\* deployment variable, whatever the repository's branch, and git is not
\* asked; a missing variable is an error without a fallback to git.  Without
\* the marker the git query is used and its failure is an error.
C7_BranchResolution ==
  /\ ~ViaGit =>
       /\ ~Issued(RevParse)
       /\ currentBranch # <<>> => currentBranch = env.VERCEL_GIT_COMMIT_REF.val
       /\ syncBranch # <<>> => syncBranch = env.VERCEL_GIT_COMMIT_REF.val
       /\ ~Truthy(env.VERCEL_GIT_COMMIT_REF) =>
            /\ currentBranch = <<>> /\ syncBranch = <<>> /\ ~token.def
            /\ pc \in BeforeResolve \cup {"failed"}
            /\ pc = "failed" /\ AllOk => err = VercelBranchError
  /\ ViaGit =>
       /\ currentBranch # <<>> => currentBranch = <<gitBranch>>
       /\ syncBranch # <<>> => syncBranch = <<gitBranch>>
       /\ currentBranch # <<>> \/ syncBranch # <<>> \/ token.def =>
            \E i \in 1..Len(log) : log[i].cmd = RevParse /\ log[i].ok
       /\ \A i \in 1..Len(log) :
            FailedAt(i, RevParse) =>
              i = Len(log) /\ pc = "failed" /\ err = BranchError

C7_Witness ==
  /\ ~ViaGit
  /\ currentBranch = <<"raffi">>
  /\ gitBranch = "main"
  /\ syncBranch = <<"raffi">>

\* C8: on a non-success status createPR and createGitHubIssue raise an error
\* whose message contains the response body text; no resource number is
\* returned and no success is reported.
C8_ApiErrorCarriesBody ==
  httpResp.status = "received" /\ ~httpResp.ok =>
    /\ pc = "failed"
    /\ err[1] = (IF request.url = PostPulls THEN "Failed to create PR: "
                 ELSE "Failed to create issue: ")
    /\ SubSeq(err, 2, Len(err)) = httpResp.text
    /\ Contains(err, httpResp.text)
    /\ result = 0
    /\ ~reported

C8_Witness ==
  /\ request.url = PostPulls
  /\ httpResp.status = "received"
  /\ httpResp.text = <<"e", " ">>
  /\ pc = "failed"

\* C9: generatePRMessage never returns an empty title (a non-text first
\* block is a failure), so no create-PR request carries an empty title.
C9_TitleNeverEmpty ==
  /\ Parsed => prMessage.title # <<>>
  /\ request.url = PostPulls => request.title # <<>>

\* C10: git rebase --abort is issued, and the conflict error raised, only
\* when the rebase command itself failed; a failing force-push after a
\* successful rebase causes neither.
C10_AbortOnlyAfterFailedRebase ==
  /\ \A i \in 1..Len(log) :
       log[i].cmd = RebaseAbort => i > 1 /\ FailedAt(i - 1, RebaseMain)
  /\ err = ConflictError => Failed(RebaseMain)

====
